---- MODULE Spec2Model ----
(***************************************************************************)
(* MicroEXIF: the EXIF blob builder of MicroExif.h (src/unnamed/part_000). *)
(* A builder holds an ordered tag list and an extra-data buffer; addTag    *)
(* appends a tag, buildExifBlob() lays the tags out as one TIFF IFD        *)
(* wrapped in a JPEG APP1 segment.  Bytes are integers 0..255, byte        *)
(* vectors are sequences; blob index k (0-based, as in the source) is      *)
(* element k+1 of the sequence.  writeNewJpegWithExif of MicroExif.cpp     *)
(* splices a blob into a JPEG file in front of its first FF DB marker.     *)
(***************************************************************************)
EXTENDS Integers, Sequences, FiniteSets, TLC

VARIABLES
    hostLE,         \* byte order of the host that runs the ExifTag constructors (memcpy)
    tags,           \* ExifBuilder::tags
    added,          \* the tags passed to addTag so far, in call order
    extraData,      \* ExifBuilder::extraData (a member: it outlives a build)
    exifBlob,       \* the blob returned by the latest buildExifBlob()
    prevBlob,       \* the blob returned by the build before the latest one
    layout,         \* per tag of the latest build: where its entry went and how it was routed
    nBuilds,        \* number of buildExifBlob() calls so far
    buildsSinceAdd, \* number of buildExifBlob() calls since the last addTag
    tagCount,       \* tags.size() of a builder whose header is written
    header,         \* the blob of that builder once the entry count is written
    originalFile,   \* the file named originalFile: whether it opens and reads, and its bytes
    newFile,        \* the file named newFile: whether it can be created, whether it exists, its bytes
    heap,           \* the bytes that lie in memory behind a zero-length jpegData
    call,           \* one call of writeNewJpegWithExif: its arguments' state and how it ended
    builders        \* two ExifBuilder objects side by side: members, latest blob, calls made

builderVars == <<hostLE, tags, added, extraData, exifBlob, prevBlob, layout, nBuilds, buildsSinceAdd>>
headerVars == <<tagCount, header>>
injectorVars == <<originalFile, newFile, heap, call>>
pairVars == <<builders>>
vars == <<builderVars, headerVars, injectorVars, pairVars>>

---------------------------------------------------------------------------
(* Bounds of the model. *)

MaxTags == 2
MaxBuilds == 2
LongLen == 8192
LongCount == 8
MaxHeaderCount == 40
CountSpan == 8
MaxFileSize == 3
MaxCalls == 3

---------------------------------------------------------------------------
(* Type codes of the ExifTag comment block. *)

BYTE == 1
ASCII == 2
SHORT == 3
LONG == 4
RATIONAL == 5
UNDEFINED == 7
SLONG == 9
SRATIONAL == 10

---------------------------------------------------------------------------
(* Bytes of integers. *)

\* (v >> (8*k)) & 0xFF for a non-negative v
ByteOf(v, k) == (v \div (256 ^ k)) % 256

\* byte k of the 32-bit two's complement representation of v, -2^31 <= v < 2^31
S32Byte(v, k) ==
    IF v >= 0 THEN ByteOf(v, k)
    ELSE LET w == (v + 1073741824) + 1073741824
         IN  IF k = 3 THEN 128 + ByteOf(w, 3) ELSE ByteOf(w, k)

\* std::memcpy(value.data(), &val, n): the n bytes of val in the host's order
HostBytes(v, n) ==
    [i \in 1..n |-> IF hostLE THEN S32Byte(v, i - 1) ELSE S32Byte(v, n - i)]

---------------------------------------------------------------------------
(* ExifTag constructors.  The fields tag, type, count and value are the    *)
(* struct's; ctor and arg record which constructor built the tag and from  *)
(* which argument, for the statements below that speak of the original     *)
(* value.                                                                  *)

ExifTagByte(t, tp, cnt, val) ==
    [tag |-> t, type |-> tp, count |-> cnt, value |-> <<val>>,
     ctor |-> "byte", arg |-> <<val>>]

ExifTagShort(t, tp, cnt, val) ==
    [tag |-> t, type |-> tp, count |-> cnt, value |-> HostBytes(val, 2),
     ctor |-> "short", arg |-> <<val>>]

ExifTagLong(t, tp, cnt, val) ==
    [tag |-> t, type |-> tp, count |-> cnt, value |-> HostBytes(val, 4),
     ctor |-> "long", arg |-> <<val>>]

ExifTagRational(t, tp, cnt, num, denom) ==
    [tag |-> t, type |-> tp, count |-> cnt,
     value |-> HostBytes(num, 4) \o HostBytes(denom, 4),
     ctor |-> "rational", arg |-> <<num, denom>>]

ExifTagSLong(t, tp, cnt, val) ==
    [tag |-> t, type |-> tp, count |-> cnt, value |-> HostBytes(val, 4),
     ctor |-> "slong", arg |-> <<val>>]

ExifTagSRational(t, tp, cnt, num, denom) ==
    [tag |-> t, type |-> tp, count |-> cnt,
     value |-> HostBytes(num, 4) \o HostBytes(denom, 4),
     ctor |-> "srational", arg |-> <<num, denom>>]

\* val is the string's bytes; the constructor appends the terminator
ExifTagString(t, tp, val) ==
    [tag |-> t, type |-> tp, count |-> Len(val) + 1, value |-> Append(val, 0),
     ctor |-> "string", arg |-> val]

---------------------------------------------------------------------------
(* The private helpers of ExifBuilder. *)

appendUInt16(vec, value, bigendian) ==
    IF bigendian
    THEN vec \o <<ByteOf(value, 1), ByteOf(value, 0)>>
    ELSE vec \o <<ByteOf(value, 0), ByteOf(value, 1)>>

appendUInt32(vec, value, bigendian) ==
    IF bigendian
    THEN vec \o <<ByteOf(value, 3), ByteOf(value, 2), ByteOf(value, 1), ByteOf(value, 0)>>
    ELSE vec \o <<ByteOf(value, 0), ByteOf(value, 1), ByteOf(value, 2), ByteOf(value, 3)>>

\* tag.value[i]; an index past the vector is undefined behaviour and reads oob
ValueAt(tag, i, oob) == IF i < Len(tag.value) THEN tag.value[i + 1] ELSE oob

writeTagValue(buffer, tag, bigendian, oob) ==
    LET v(i) == ValueAt(tag, i, oob)
    IN  CASE tag.type = BYTE ->
               buffer \o <<v(0), 0, 0, 0>>
          [] tag.type = SHORT ->
               IF bigendian THEN buffer \o <<v(1), v(0), 0, 0>>
                            ELSE buffer \o <<v(0), v(1), 0, 0>>
          [] tag.type \in {LONG, SLONG} ->
               IF bigendian THEN buffer \o <<v(3), v(2), v(1), v(0)>>
                            ELSE buffer \o <<v(0), v(1), v(2), v(3)>>
          [] tag.type = ASCII ->
               buffer \o tag.value
          [] OTHER ->
               buffer

\* tagFitsInField with RATIONAL listed among the types written inline
tagFitsInFieldRational(tag) ==
    IF tag.type \in {BYTE, SHORT, LONG, RATIONAL, SLONG} THEN TRUE
    ELSE IF tag.type = ASCII THEN Len(tag.value) <= 4
    ELSE FALSE

tagFitsInField(tag) ==
    IF tag.type \in {BYTE, SHORT, LONG, SLONG} THEN TRUE
    ELSE IF tag.type = ASCII THEN Len(tag.value) <= 4
    ELSE FALSE

Reversed(s) == [i \in 1..Len(s) |-> s[Len(s) + 1 - i]]

\* appendExtraData without the padding byte after a value of odd length
appendExtraDataNoPad(extra, tag, dataOffset, bigendian) ==
    LET data == tag.value
        put  == IF bigendian \/ tag.type = ASCII THEN data ELSE Reversed(data)
    IN  [extraData |-> extra \o put, dataOffset |-> dataOffset + Len(data)]

\* appendExtraData that pads extraData but leaves the pad byte out of dataOffset
appendExtraDataPadUncounted(extra, tag, dataOffset, bigendian) ==
    LET data == tag.value
        put  == IF bigendian \/ tag.type = ASCII THEN data ELSE Reversed(data)
    IN  IF Len(data) % 2 # 0
        THEN [extraData |-> (extra \o put) \o <<0>>, dataOffset |-> dataOffset + Len(data)]
        ELSE [extraData |-> extra \o put, dataOffset |-> dataOffset + Len(data)]

\* appendExtraData that stores a value only if extraData does not end with it
appendExtraDataShared(extra, tag, dataOffset, bigendian) ==
    LET data == tag.value
        put  == IF bigendian \/ tag.type = ASCII THEN data ELSE Reversed(data)
        new  == IF Len(data) % 2 # 0 THEN put \o <<0>> ELSE put
    IN  IF Len(extra) >= Len(new) /\ SubSeq(extra, Len(extra) - Len(new) + 1, Len(extra)) = new
        THEN [extraData |-> extra, dataOffset |-> dataOffset]
        ELSE [extraData |-> extra \o new, dataOffset |-> dataOffset + Len(new)]

\* the new extraData and the new dataOffset
appendExtraData(extra, tag, dataOffset, bigendian) ==
    LET data == tag.value
        put  == IF bigendian \/ tag.type = ASCII THEN data ELSE Reversed(data)
    IN  IF Len(data) % 2 # 0
        THEN [extraData |-> (extra \o put) \o <<0>>, dataOffset |-> dataOffset + Len(data) + 1]
        ELSE [extraData |-> extra \o put, dataOffset |-> dataOffset + Len(data)]

---------------------------------------------------------------------------
(* The variant encoder of ExifBulider.cpp, whose ExifTag holds the string  *)
(* itself in a std::variant.                                               *)

\* ExifTag(uint16_t t, uint16_t tp, const std::string& val): value is the
\* std::string, which stores no terminator among its size() characters
VariantExifTagString(t, tp, val) ==
    [tag |-> t, type |-> tp, count |-> Len(val) + 1, value |-> val]

\* the std::string branch: str.size() <= 4
VariantTagFitsInField(tag) == Len(tag.value) <= 4

\* the std::string branch: min(4, size) characters copied into 4 zero bytes
VariantWriteTagValue(buffer, tag) ==
    buffer \o [k \in 1..4 |-> IF k <= Len(tag.value) THEN tag.value[k] ELSE 0]

\* the std::string branch: the characters, a 0, dataOffset += size + 1
VariantAppendExtraData(extra, tag, dataOffset) ==
    [extraData |-> (extra \o tag.value) \o <<0>>,
     dataOffset |-> dataOffset + Len(tag.value) + 1]

---------------------------------------------------------------------------
(* buildExifBlob. *)

\* InitialDataOffset without the 4 bytes of the next-IFD offset
InitialDataOffsetNoNextIfd(n) == 8 + 2 + (n * 12)

\* size_t dataOffset = 8 + 2 + (tags.size() * 12) + 4
InitialDataOffset(n) == 8 + 2 + (n * 12) + 4

\* APP1 marker and length placeholder, "Exif\0\0", TIFF header, entry count
BlobHeader(n, bigendian) ==
    LET app1 == <<255, 225, 0, 0>> \o <<69, 120, 105, 102, 0, 0>>
        bom  == appendUInt16(app1, IF bigendian THEN 19789 ELSE 18761, TRUE)
        ver  == appendUInt16(bom, 42, bigendian)
        ifd  == appendUInt32(ver, 8, bigendian)
    IN  appendUInt16(ifd, n % 65536, bigendian)

\* One iteration of "for (auto& tag : tags)": st is the loop's state, the
\* blob so far, extraData, dataOffset and the layout noted for the tags done:
\* where the entry starts, how it was routed, the offset written, and
\* extraData's length and dataOffset before (xpos, offset) and after (xend,
\* after) the iteration.
TagStep(st, tag, bigendian, oob) ==
    LET hdr == appendUInt32(appendUInt16(appendUInt16(st.blob, tag.tag, bigendian),
                                         tag.type, bigendian),
                            tag.count, bigendian)
    IN  IF tagFitsInField(tag)
        THEN [blob       |-> writeTagValue(hdr, tag, bigendian, oob),
              extraData  |-> st.extraData,
              dataOffset |-> st.dataOffset,
              layout     |-> Append(st.layout,
                                [start |-> Len(st.blob), inline |-> TRUE,
                                 offset |-> 0, xpos |-> Len(st.extraData),
                                 after |-> st.dataOffset,
                                 xend |-> Len(st.extraData)])]
        ELSE LET ext == appendExtraData(st.extraData, tag, st.dataOffset, bigendian)
             IN  [blob       |-> appendUInt32(hdr, st.dataOffset, bigendian),
                  extraData  |-> ext.extraData,
                  dataOffset |-> ext.dataOffset,
                  layout     |-> Append(st.layout,
                                    [start |-> Len(st.blob), inline |-> FALSE,
                                     offset |-> st.dataOffset,
                                     xpos |-> Len(st.extraData),
                                     after |-> ext.dataOffset,
                                     xend |-> Len(ext.extraData)])]

RECURSIVE TagLoop(_, _, _, _, _)
TagLoop(st, tgs, i, bigendian, oob) ==
    IF i > Len(tgs) THEN st
    ELSE TagLoop(TagStep(st, tgs[i], bigendian, oob), tgs, i + 1, bigendian, oob)

\* PatchLength that counts the APP1 marker in the length
PatchLengthWithMarker(blob) ==
    LET exifLength == Len(blob) % 65536
    IN  [k \in 1..Len(blob) |->
            IF k = 3 THEN ByteOf(exifLength, 1)
            ELSE IF k = 4 THEN ByteOf(exifLength, 0)
            ELSE blob[k]]

\* exifBlob[2], exifBlob[3] = the 16-bit exifLength, high byte first
PatchLength(blob) ==
    LET exifLength == (Len(blob) - 2) % 65536
    IN  [k \in 1..Len(blob) |->
            IF k = 3 THEN ByteOf(exifLength, 1)
            ELSE IF k = 4 THEN ByteOf(exifLength, 0)
            ELSE blob[k]]

\* buildExifBlob up to the insertion of extraData, the length still 00 00
AssembleBlob(tgs, extra, bigendian, oob) ==
    LET st0  == [blob |-> BlobHeader(Len(tgs), bigendian), extraData |-> extra,
                 dataOffset |-> InitialDataOffset(Len(tgs)), layout |-> <<>>]
        st   == TagLoop(st0, tgs, 1, bigendian, oob)
        next == appendUInt32(st.blob, 0, TRUE)
    IN  [blob |-> next \o st.extraData, extraData |-> st.extraData, layout |-> st.layout]

\* buildExifBlob that writes the length in the byte order of the flag
buildExifBlobLengthByFlag(tgs, extra, bigendian, oob) ==
    LET a == AssembleBlob(tgs, extra, bigendian, oob)
        exifLength == (Len(a.blob) - 2) % 65536
    IN  [blob |-> [k \in 1..Len(a.blob) |->
                      IF k = 3 THEN ByteOf(exifLength, IF bigendian THEN 1 ELSE 0)
                      ELSE IF k = 4 THEN ByteOf(exifLength, IF bigendian THEN 0 ELSE 1)
                      ELSE a.blob[k]],
         extraData |-> a.extraData, layout |-> a.layout]

\* The blob returned, the extraData member after the call, and the layout.
buildExifBlob(tgs, extra, bigendian, oob) ==
    LET a == AssembleBlob(tgs, extra, bigendian, oob)
    IN  [blob |-> PatchLength(a.blob), extraData |-> a.extraData, layout |-> a.layout]

---------------------------------------------------------------------------
(* Inputs. *)

Strings == { <<97>>, <<97, 98, 99>>, <<97, 98, 99, 100>>, <<88, 105, 109, 101, 97>> }

TagInputs ==
    {ExifTagByte(274, BYTE, 1, 7)}
    \cup {ExifTagShort(34855, SHORT, c, 200) : c \in {1, 3}}
    \cup {ExifTagLong(256, LONG, 1, 16909060)}
    \cup {ExifTagSLong(37380, SLONG, 1, -2)}
    \cup {ExifTagRational(33434, RATIONAL, 1, 1, 100)}
    \cup {ExifTagSRational(37377, SRATIONAL, 1, -1, 3)}
    \cup {ExifTagString(271, ASCII, s) : s \in Strings}
    \cup {ExifTagString(37500, UNDEFINED, <<97, 98>>)}
    \cup {ExifTagString(33437, RATIONAL, <<97>>)}
    \cup {ExifTagShort(257, LONG, 1, 200)}

\* strings of about 8 KiB
LongStrings == { [i \in 1..n |-> 65] : n \in (LongLen - 2)..LongLen }

\* the tag list of a builder after k addTag calls with one such string; about
\* LongCount of them carry the blob past 65537 bytes
LongTagLists ==
    { [i \in 1..k |-> ExifTagString(271, ASCII, s)] :
          k \in (LongCount - 4)..(LongCount + 3), s \in LongStrings }

\* what an out-of-range read of tag.value may yield
OobBytes == {0, 255}

\* numbers of tags a builder can hold: a few, and those around 2^16
HeaderCounts == (0..MaxHeaderCount) \cup ((65536 - CountSpan)..(65536 + CountSpan))

\* the bytes of the files: the two marker bytes and one other
JpegBytes == {0, 219, 255}

RECURSIVE ByteSeqs(_)
ByteSeqs(n) ==
    IF n = 0 THEN {<<>>}
    ELSE LET shorter == ByteSeqs(n - 1)
         IN  shorter \cup {Append(q, b) : q \in {r \in shorter : Len(r) = n - 1}, b \in JpegBytes}

\* the source files: one that does not open, one that opens but does not
\* read, and every readable content up to MaxFileSize bytes
OriginalFiles ==
    {[status |-> st, data |-> <<0, 255, 219>>] : st \in {"noopen", "noread"}}
    \cup {[status |-> "ok", data |-> d] : d \in ByteSeqs(MaxFileSize)}

\* the destination before the call: absent or an older file, creatable or not
NewFiles ==
    {[creatable |-> c, exists |-> FALSE, data |-> <<>>] : c \in BOOLEAN}
    \cup {[creatable |-> c, exists |-> TRUE, data |-> <<7>>] : c \in BOOLEAN}

\* what the allocator left behind the buffer
Heaps == {<<>>, <<255, 219>>, <<0, 255, 219>>}

\* blobs to inject: of a builder without tags and of one with a BYTE tag
InjectBlobs ==
    {buildExifBlob(tgs, <<>>, TRUE, 0).blob : tgs \in {<<>>, <<ExifTagByte(274, BYTE, 1, 7)>>}}

---------------------------------------------------------------------------
(* The injector of MicroExif.cpp. *)

\* the smallest 0-based i below limit with mem[i] = FF and mem[i+1] = DB, or -1
FirstMarker(mem, limit) ==
    LET hits == {i \in 0..(limit - 1) : i + 2 <= Len(mem) /\ mem[i + 1] = 255 /\ mem[i + 2] = 219}
    IN  IF hits = {} THEN -1 ELSE CHOOSE i \in hits : \A j \in hits : i <= j

\* findFFDBMarker(jpegData, fileSize): the loop bound is the size_t
\* fileSize - 1.  For fileSize = 0 it wraps to SIZE_MAX and the loop reads
\* behind the zero-length buffer: it returns the index of a marker it meets
\* in that memory, or runs off the mapped memory.
findFFDBMarker(jpegData, fileSize, behind) ==
    IF fileSize = 0
    THEN LET i == FirstMarker(behind, Len(behind))
         IN  IF i >= 0 THEN [kind |-> "found", pos |-> i, oob |-> TRUE]
             ELSE [kind |-> "crash", pos |-> 0, oob |-> TRUE]
    ELSE LET i == FirstMarker(jpegData, fileSize - 1)
         IN  IF i >= 0 THEN [kind |-> "found", pos |-> i, oob |-> FALSE]
             ELSE [kind |-> "notfound", pos |-> 0, oob |-> FALSE]

\* how a call ended: result ok, error (an exception, with its message) or
\* crash; the destination after it; whether the output stream was opened on
\* it; jpegData, never allocated, freed or still allocated; whether the
\* scan read outside jpegData
Outcome(result, message, file, opened, buffer, oob) ==
    [result |-> result, message |-> message, newFile |-> file,
     opened |-> opened, buffer |-> buffer, oob |-> oob]

\* writeNewJpegWithExif that creates the output file before reading the source
writeNewJpegWithExifOutputFirst(src, dest, blob, behind) ==
    LET made == IF dest.creatable
                THEN [creatable |-> TRUE, exists |-> TRUE, data |-> <<>>]
                ELSE dest
    IN  IF src.status = "noopen"
        THEN Outcome("error", "Unable to open file.", made, dest.creatable, "none", FALSE)
        ELSE IF src.status = "noread"
        THEN Outcome("error", "Error reading file.", made, dest.creatable, "freed", FALSE)
        ELSE LET m == findFFDBMarker(src.data, Len(src.data), behind)
             IN  IF m.kind = "notfound"
                 THEN Outcome("error", "FFDB marker not found.", made, dest.creatable, "allocated", m.oob)
                 ELSE IF m.kind = "crash"
                 THEN Outcome("crash", "", made, dest.creatable, "allocated", m.oob)
                 ELSE IF ~dest.creatable
                 THEN Outcome("error", "Unable to create output file.", dest, FALSE, "freed", m.oob)
                 ELSE Outcome("ok", "",
                              [creatable |-> TRUE, exists |-> TRUE,
                               data |-> (SubSeq(src.data \o behind, 1, m.pos) \o blob)
                                           \o SubSeq(src.data, m.pos + 1, Len(src.data))],
                              TRUE, "freed", m.oob)

\* writeNewJpegWithExif(originalFile, newFile, exifBlob, exifSize): read the
\* source, find the marker, then create the output and write the three
\* parts.  The third write has the count fileSize - ffdBMarkerPos; when the
\* marker was met behind an empty buffer there is nothing of the file left
\* to write.
writeNewJpegWithExif(src, dest, blob, behind) ==
    IF src.status = "noopen"
    THEN Outcome("error", "Unable to open file.", dest, FALSE, "none", FALSE)
    ELSE IF src.status = "noread"
    THEN Outcome("error", "Error reading file.", dest, FALSE, "freed", FALSE)
    ELSE LET m == findFFDBMarker(src.data, Len(src.data), behind)
         IN  IF m.kind = "notfound"
             THEN Outcome("error", "FFDB marker not found.", dest, FALSE, "allocated", m.oob)
             ELSE IF m.kind = "crash"
             THEN Outcome("crash", "", dest, FALSE, "allocated", m.oob)
             ELSE IF ~dest.creatable
             THEN Outcome("error", "Unable to create output file.", dest, FALSE, "freed", m.oob)
             ELSE Outcome("ok", "",
                          [creatable |-> TRUE, exists |-> TRUE,
                           data |-> (SubSeq(src.data \o behind, 1, m.pos) \o blob)
                                       \o SubSeq(src.data, m.pos + 1, Len(src.data))],
                          TRUE, "freed", m.oob)

---------------------------------------------------------------------------
(* The builder as a state machine. *)

\* no header written, for the specifications of the other parts
HeaderIdle == tagCount = 0 /\ header = <<>>

\* no call of the injector made or to be made
NoCall == [state |-> "none", blob |-> <<>>, before |-> <<>>, out |-> <<>>]

InjectorIdle ==
    /\ originalFile = [status |-> "noopen", data |-> <<>>]
    /\ newFile = [creatable |-> FALSE, exists |-> FALSE, data |-> <<>>]
    /\ heap = <<>>
    /\ call = NoCall

\* the two ExifBuilder objects
Instances == {"A", "B"}

\* an ExifBuilder as constructed: no tags, no extra data, nothing built or called
NewBuilder == [tags |-> <<>>, extraData |-> <<>>, exifBlob |-> <<>>, calls |-> <<>>]

\* both objects as constructed, for the specifications of the other parts
PairIdle == builders = [b \in Instances |-> NewBuilder]

\* a builder as constructed, on a little-endian host
BuilderFresh ==
    /\ hostLE = TRUE
    /\ tags = <<>>
    /\ added = <<>>
    /\ extraData = <<>>
    /\ exifBlob = <<>>
    /\ prevBlob = <<>>
    /\ layout = <<>>
    /\ nBuilds = 0
    /\ buildsSinceAdd = 0

Init ==
    /\ hostLE \in BOOLEAN
    /\ tags = <<>>
    /\ added = <<>>
    /\ extraData = <<>>
    /\ exifBlob = <<>>
    /\ prevBlob = <<>>
    /\ layout = <<>>
    /\ nBuilds = 0
    /\ buildsSinceAdd = 0
    /\ HeaderIdle
    /\ InjectorIdle
    /\ PairIdle

\* addTag that replaces an earlier tag of the same id instead of appending
AddTagMerging ==
    /\ Len(tags) < MaxTags
    /\ \E t \in TagInputs :
          /\ tags' = IF \E i \in DOMAIN tags : tags[i].tag = t.tag
                     THEN [i \in DOMAIN tags |-> IF tags[i].tag = t.tag THEN t ELSE tags[i]]
                     ELSE Append(tags, t)
          /\ added' = Append(added, t)
    /\ buildsSinceAdd' = 0
    /\ UNCHANGED <<hostLE, extraData, exifBlob, prevBlob, layout, nBuilds>>
    /\ UNCHANGED <<headerVars, injectorVars, pairVars>>

\* builder.addTag(ExifTag(...))
AddTag ==
    /\ Len(tags) < MaxTags
    /\ \E t \in TagInputs :
          /\ tags' = Append(tags, t)
          /\ added' = Append(added, t)
    /\ buildsSinceAdd' = 0
    /\ UNCHANGED <<hostLE, extraData, exifBlob, prevBlob, layout, nBuilds>>
    /\ UNCHANGED <<headerVars, injectorVars, pairVars>>

\* buildExifBlob that moves the tags out of the builder
BuildMovingTags ==
    /\ nBuilds < MaxBuilds
    /\ \E oob \in OobBytes :
          LET r == buildExifBlob(tags, extraData, TRUE, oob)
          IN  /\ exifBlob' = r.blob
              /\ extraData' = r.extraData
              /\ layout' = r.layout
    /\ tags' = <<>>
    /\ prevBlob' = exifBlob
    /\ nBuilds' = nBuilds + 1
    /\ buildsSinceAdd' = buildsSinceAdd + 1
    /\ UNCHANGED <<hostLE, added>>
    /\ UNCHANGED <<headerVars, injectorVars, pairVars>>

\* builder.buildExifBlob(); bigendian is the local constant true
Build ==
    /\ nBuilds < MaxBuilds
    /\ \E oob \in OobBytes :
          LET r == buildExifBlob(tags, extraData, TRUE, oob)
          IN  /\ exifBlob' = r.blob
              /\ extraData' = r.extraData
              /\ layout' = r.layout
    /\ prevBlob' = exifBlob
    /\ nBuilds' = nBuilds + 1
    /\ buildsSinceAdd' = buildsSinceAdd + 1
    /\ UNCHANGED <<hostLE, tags, added>>
    /\ UNCHANGED <<headerVars, injectorVars, pairVars>>

Next == AddTag \/ Build

Spec == Init /\ [][Next]_vars

\* a builder that has taken a run of addTag calls with long strings, about to build
InitLong ==
    /\ hostLE \in BOOLEAN
    /\ tags \in LongTagLists
    /\ added = tags
    /\ extraData = <<>>
    /\ exifBlob = <<>>
    /\ prevBlob = <<>>
    /\ layout = <<>>
    /\ nBuilds = 0
    /\ buildsSinceAdd = 0
    /\ HeaderIdle
    /\ InjectorIdle
    /\ PairIdle

NextLong == Build

SpecLong == InitLong /\ [][NextLong]_vars

---------------------------------------------------------------------------
(* The head of the blob for a builder of tagCount tags. *)

InitHeader ==
    /\ BuilderFresh
    /\ InjectorIdle
    /\ PairIdle
    /\ tagCount \in HeaderCounts
    /\ header = <<>>

\* buildExifBlob from its start to the entry count
WriteHeader ==
    /\ header = <<>>
    /\ header' = BlobHeader(tagCount, TRUE)
    /\ UNCHANGED <<tagCount, builderVars, injectorVars, pairVars>>

NextHeader == WriteHeader

SpecHeader == InitHeader /\ [][NextHeader]_vars

---------------------------------------------------------------------------
(* Two builders side by side, each called at most MaxCalls times. *)

\* the tags given to the two builders: one written inline, one routed
PairTagInputs ==
    {ExifTagByte(274, BYTE, 1, 7), ExifTagString(271, ASCII, <<97, 98, 99, 100>>)}

InitPair ==
    /\ BuilderFresh
    /\ HeaderIdle
    /\ InjectorIdle
    /\ builders = [b \in Instances |-> NewBuilder]

\* b.addTag(ExifTag(...))
AddTagTo(b) ==
    /\ Len(builders[b].calls) < MaxCalls
    /\ \E t \in PairTagInputs :
          builders' = [builders EXCEPT
                          ![b].tags = Append(@, t),
                          ![b].calls = Append(@, [op |-> "addTag", tag |-> <<t>>])]
    /\ UNCHANGED <<builderVars, headerVars, injectorVars>>

\* buildExifBlob on b with one extraData buffer for all builders
BuildOnShared(b) ==
    /\ Len(builders[b].calls) < MaxCalls
    /\ LET r == buildExifBlob(builders[b].tags, builders[b].extraData, TRUE, 0)
       IN  builders' = [c \in Instances |->
                           IF c = b
                           THEN [builders[c] EXCEPT
                                    !.exifBlob = r.blob,
                                    !.extraData = r.extraData,
                                    !.calls = Append(@, [op |-> "buildExifBlob", tag |-> <<>>])]
                           ELSE [builders[c] EXCEPT !.extraData = r.extraData]]
    /\ UNCHANGED <<builderVars, headerVars, injectorVars>>

\* b.buildExifBlob(): it reads and writes the members of b; no tag of
\* PairTagInputs is read out of range
BuildOn(b) ==
    /\ Len(builders[b].calls) < MaxCalls
    /\ LET r == buildExifBlob(builders[b].tags, builders[b].extraData, TRUE, 0)
       IN  builders' = [builders EXCEPT
                           ![b].exifBlob = r.blob,
                           ![b].extraData = r.extraData,
                           ![b].calls = Append(@, [op |-> "buildExifBlob", tag |-> <<>>])]
    /\ UNCHANGED <<builderVars, headerVars, injectorVars>>

NextPair == \E b \in Instances : AddTagTo(b) \/ BuildOn(b)

SpecPair == InitPair /\ [][NextPair]_vars

---------------------------------------------------------------------------
(* One call of the injector on a source file and a destination. *)

InitInject ==
    /\ BuilderFresh
    /\ HeaderIdle
    /\ PairIdle
    /\ originalFile \in OriginalFiles
    /\ newFile \in NewFiles
    /\ heap \in Heaps
    /\ \E b \in InjectBlobs :
          call = [state |-> "ready", blob |-> b, before |-> newFile, out |-> <<>>]

\* writeNewJpegWithExif(originalFile, newFile, blob.data(), blob.size())
Inject ==
    /\ call.state = "ready"
    /\ LET out == writeNewJpegWithExif(originalFile, newFile, call.blob, heap)
       IN  /\ newFile' = out.newFile
           /\ call' = [call EXCEPT !.state = "done", !.out = out]
    /\ UNCHANGED <<originalFile, heap, builderVars, headerVars, pairVars>>

NextInject == Inject

SpecInject == InitInject /\ [][NextInject]_vars

---------------------------------------------------------------------------
(* Reading a built blob.  Index arguments are 0-based blob indices. *)

Slice(s, k, n) == SubSeq(s, k + 1, k + n)

BE32(f) == ((f[1] * 256 + f[2]) * 256 + f[3]) * 256 + f[4]

\* a 32-bit value, most significant byte first
BE32Bytes(v) == <<S32Byte(v, 3), S32Byte(v, 2), S32Byte(v, 1), S32Byte(v, 0)>>

\* a build has completed; layout, extraData and exifBlob are those of the
\* latest build, which saw the tags tags[1..Len(layout)]
Built == nBuilds >= 1

\* the only build so far ran on a builder that had never built
FirstBuild == nBuilds = 1

Routed == {i \in DOMAIN layout : ~layout[i].inline}

\* the 4-byte value field of entry i where the layout of the spec puts it
FieldPos(i) == 20 + 12 * (i - 1) + 8

\* the 4-byte value field of entry i where the builder wrote it
WrittenField(i) == Slice(exifBlob, layout[i].start + 8, 4)

WrittenOffset(i) == BE32(WrittenField(i))

\* where the next-IFD offset and the extra data sit in the latest blob
ExtraStart == Len(exifBlob) - Len(extraData)
NextIfdPos == ExtraStart - 4

\* unit sizes of the TIFF types
UnitSize(tp) ==
    CASE tp \in {BYTE, ASCII, UNDEFINED} -> 1
      [] tp = SHORT -> 2
      [] tp \in {LONG, SLONG} -> 4
      [] tp \in {RATIONAL, SRATIONAL} -> 8
      [] OTHER -> 1

EncodedLength(t) == t.count * UnitSize(t.type)

---------------------------------------------------------------------------
(* C1: two or more buildExifBlob() calls on the same builder with no       *)
(* addTag in between return byte-identical blobs.                          *)
C1_RepeatedBuildIdentical ==
    buildsSinceAdd >= 2 => exifBlob = prevBlob

(* C2: in every blob returned, bytes 2-3 read as a big-endian 16-bit       *)
(* integer equal len(blob) - 2.                                            *)
C2_LengthField ==
    Built => exifBlob[3] * 256 + exifBlob[4] = Len(exifBlob) - 2

(* C3: in the blob of the first build on a fresh builder, the value field  *)
(* of every tag routed to extra data, read as a big-endian offset from the *)
(* TIFF header at blob index 10, addresses bytes inside the blob that      *)
(* equal the tag's raw value bytes for their full length.                  *)
C3_OffsetRoundTrip ==
    FirstBuild =>
        \A i \in Routed :
            /\ FieldPos(i) + 4 <= Len(exifBlob)
            /\ LET f == Slice(exifBlob, FieldPos(i), 4)
               IN  /\ f[1] < 128
                   /\ 10 + BE32(f) + Len(tags[i].value) <= Len(exifBlob)
                   /\ Slice(exifBlob, 10 + BE32(f), Len(tags[i].value)) = tags[i].value

(* C4 as stated: the offset written for every tag routed to extra data in  *)
(* a blob with N entries is >= 20 + 12N + 4.                               *)
C4_OffsetLowerBoundAsStated ==
    Built => \A i \in Routed : WrittenOffset(i) >= 20 + 12 * Len(layout) + 4

(* C4 amended: the offset written for every tag routed to extra data in a  *)
(* blob with N entries is >= 8 + 2 + 12N + 4, the TIFF-relative position   *)
(* of blob index 24 + 12N.                                                 *)
C4_OffsetLowerBound ==
    Built => \A i \in Routed : WrittenOffset(i) >= 8 + 2 + 12 * Len(layout) + 4

\* a built blob whose first routed tag got exactly the lower bound
C4_Witness ==
    /\ Built
    /\ \E i \in Routed : WrittenOffset(i) = 8 + 2 + 12 * Len(layout) + 4
    /\ Cardinality(Routed) >= 2

\* the tags C5 speaks of
InlineByCtor(t) ==
    \/ t.type = BYTE /\ t.ctor = "byte"
    \/ t.type = SHORT /\ t.ctor = "short"
    \/ t.type = LONG /\ t.ctor = "long"
    \/ t.type = SLONG /\ t.ctor = "slong"
    \/ t.type = ASCII /\ t.ctor = "string" /\ Len(t.value) <= 4

\* field f holds the original value of t, big-endian, and no offset
DecodesTo(f, t) ==
    CASE t.type = BYTE  -> f[1] = t.arg[1]
      [] t.type = SHORT -> f = <<ByteOf(t.arg[1], 1), ByteOf(t.arg[1], 0), 0, 0>>
      [] t.type \in {LONG, SLONG} -> f = BE32Bytes(t.arg[1])
      [] OTHER -> SubSeq(f, 1, Len(t.value)) = Append(t.arg, 0)

(* C5: for a BYTE, SHORT, LONG or SLONG tag built by the matching          *)
(* constructor and an ASCII tag of at most 4 bytes with its terminator,    *)
(* the 4-byte value field of its directory entry decodes, big-endian, to   *)
(* the original value (SHORT v as high byte, low byte, 00, 00).  Stated    *)
(* for the little-endian hosts the program is built for.                   *)
C5_InlineRoundTrip ==
    (Built /\ hostLE) =>
        \A i \in DOMAIN layout :
            InlineByCtor(tags[i]) =>
                /\ FieldPos(i) + 4 <= Len(exifBlob)
                /\ DecodesTo(Slice(exifBlob, FieldPos(i), 4), tags[i])

\* where entry i ends: at the next entry, or at the next-IFD offset
EntryEnd(i) == IF i < Len(layout) THEN layout[i + 1].start ELSE NextIfdPos

(* C6: every directory entry occupies exactly 12 bytes: entry i (0-based)  *)
(* starts at blob index 20 + 12i, the next-IFD offset 00 00 00 00 sits at  *)
(* 20 + 12N .. 23 + 12N and the extra data starts at 24 + 12N.             *)
C6_EntryLayout ==
    Built =>
        /\ \A i \in DOMAIN layout :
              /\ layout[i].start = 20 + 12 * (i - 1)
              /\ EntryEnd(i) - layout[i].start = 12
        /\ NextIfdPos = 20 + 12 * Len(layout)
        /\ Slice(exifBlob, NextIfdPos, 4) = <<0, 0, 0, 0>>
        /\ ExtraStart = 24 + 12 * Len(layout)

ShouldInline(t) ==
    \/ EncodedLength(t) <= 4 /\ t.type \in {BYTE, SHORT, LONG, SLONG}
    \/ t.type = ASCII /\ Len(t.value) <= 4

(* C8: a tag is written inline if and only if its encoded length is <= 4   *)
(* and its type is BYTE, SHORT, LONG or SLONG, or it is ASCII of length    *)
(* <= 4 with its terminator; every other tag is offset-based.              *)
C8_InlineDecision ==
    Built => \A i \in DOMAIN layout : layout[i].inline <=> ShouldInline(tags[i])

(* C9: a RATIONAL or SRATIONAL tag is never written inline: its value      *)
(* field holds an offset and its value bytes are in the extra data.        *)
C9_RationalNeverInline ==
    Built =>
        \A i \in DOMAIN layout :
            tags[i].type \in {RATIONAL, SRATIONAL} =>
                /\ ~layout[i].inline
                /\ WrittenField(i) = BE32Bytes(layout[i].offset)
                /\ layout[i].offset >= InitialDataOffset(Len(layout))
                /\ Slice(extraData, layout[i].xpos, Len(tags[i].value)) = tags[i].value

\* a built blob holding a RATIONAL, and one of a raw length other than 8
C9_Witness ==
    /\ Built
    /\ \E i \in Routed : tags[i].type = RATIONAL /\ Len(tags[i].value) = 8
    /\ \E i \in Routed : tags[i].type \in {RATIONAL, SRATIONAL} /\ Len(tags[i].value) # 8

(* C10: a RATIONAL tag built from (num, denom) is stored in extra data as  *)
(* the numerator, 4 bytes big-endian, then the denominator, 4 bytes        *)
(* big-endian, whatever the byte order of the host.                        *)
C10_RationalBigEndian ==
    Built =>
        \A i \in DOMAIN layout :
            (tags[i].type = RATIONAL /\ tags[i].ctor = "rational") =>
                /\ ~layout[i].inline
                /\ Slice(extraData, layout[i].xpos, 8)
                      = BE32Bytes(tags[i].arg[1]) \o BE32Bytes(tags[i].arg[2])

\* the 8 bytes that open the directory entry of tag t: id, type, count
EntryHead(t) == appendUInt32(appendUInt16(appendUInt16(<<>>, t.tag, TRUE), t.type, TRUE), t.count, TRUE)

(* C11: the directory of a built blob holds exactly one entry per addTag   *)
(* call, in call order, each with the id, type and count of the tag added; *)
(* tags are not reordered by id and tags of the same id are both emitted.  *)
(* Entries are read where the builder wrote them.                          *)
C11_EntriesInCallOrder ==
    (Built /\ buildsSinceAdd >= 1) =>
        /\ Len(layout) = Len(added)
        /\ Slice(exifBlob, 18, 2) = <<ByteOf(Len(added), 1), ByteOf(Len(added), 0)>>
        /\ \A i \in DOMAIN layout :
              /\ Slice(exifBlob, layout[i].start, 8) = EntryHead(added[i])
              /\ layout[i].start >= 20
              /\ i < Len(layout) => layout[i].start + 8 <= layout[i + 1].start
              /\ layout[i].start + 8 <= NextIfdPos

\* a built blob of two different tags that carry the same id
C11_Witness ==
    /\ Built /\ buildsSinceAdd >= 1
    /\ Len(added) = 2
    /\ added[1].tag = added[2].tag
    /\ added[1] # added[2]

(* C13: buildExifBlob on a builder without tags returns 24 bytes: the      *)
(* 10-byte APP1/Exif prefix with length field 22, then 14 bytes of TIFF    *)
(* content with entry count 0 and next-IFD offset 0, and no extra data.    *)
C13_EmptyBuilder ==
    (Built /\ buildsSinceAdd >= 1 /\ tags = <<>>) =>
        /\ Len(exifBlob) = 24
        /\ exifBlob = <<255, 225, 0, 22, 69, 120, 105, 102, 0, 0,
                        77, 77, 0, 42, 0, 0, 0, 8, 0, 0, 0, 0, 0, 0>>
        /\ Len(exifBlob) - 10 = 14
        /\ extraData = <<>>

\* a builder without tags has built, twice
C13_Witness == nBuilds = 2 /\ tags = <<>> /\ Len(exifBlob) = 24

(* C14: once buildExifBlob has completed on a builder, addTag is rejected  *)
(* and leaves the builder's tag list as it was.                            *)
C14_AddTagRejectedOnceBuilt == [][Built => tags' = tags]_vars

(* C17: each value appendExtraData appends takes its length in extraData   *)
(* and in dataOffset, plus exactly one zero byte when the length is odd    *)
(* and nothing when it is even.                                            *)
C17_PaddingRule ==
    Built =>
        \A i \in Routed :
            LET n   == Len(tags[i].value)
                pad == IF n % 2 # 0 THEN 1 ELSE 0
            IN  /\ layout[i].xend - layout[i].xpos = n + pad
                /\ layout[i].after - layout[i].offset = n + pad
                /\ Slice(extraData, layout[i].xpos, n) = tags[i].value
                /\ pad = 1 => extraData[layout[i].xend] = 0

\* a value of odd length (abcd NUL) and one of even length (Ximea NUL) are routed
C17_Witness ==
    /\ Built
    /\ \E i \in Routed : Len(tags[i].value) = 5
    /\ \E i \in Routed : Len(tags[i].value) = 6 /\ layout[i].xend - layout[i].xpos = 6

\* the raw bytes of a value and the pad byte of an odd length
PaddedValue(t) == IF Len(t.value) % 2 # 0 THEN t.value \o <<0>> ELSE t.value

\* the padded values of the routed tags among tgs[i..], in order
RECURSIVE RoutedValues(_, _)
RoutedValues(tgs, i) ==
    IF i > Len(tgs) THEN <<>>
    ELSE (IF i \in Routed THEN PaddedValue(tgs[i]) ELSE <<>>) \o RoutedValues(tgs, i + 1)

\* where the directory entries end in the blob: an inline ASCII value takes
\* its own length, every other value field or offset takes 4 bytes
DirectoryEnd ==
    IF layout = <<>> THEN 20
    ELSE LET n == Len(layout)
         IN  layout[n].start + 8
                + (IF layout[n].inline /\ tags[n].type = ASCII THEN Len(tags[n].value) ELSE 4)

(* C18: in the blob of the first build, what follows the next-IFD offset   *)
(* is the concatenation, in directory order, of the padded raw values of   *)
(* the routed tags and nothing else; equal values are stored once per tag, *)
(* each at its own offset.                                                 *)
C18_ExtraDataContent ==
    FirstBuild =>
        /\ Slice(exifBlob, DirectoryEnd, 4) = <<0, 0, 0, 0>>
        /\ Len(exifBlob) = DirectoryEnd + 4 + Len(RoutedValues(tags, 1))
        /\ Slice(exifBlob, DirectoryEnd + 4, Len(RoutedValues(tags, 1))) = RoutedValues(tags, 1)
        /\ \A i, j \in Routed :
              i < j => /\ layout[i].offset # layout[j].offset
                       /\ layout[i].xend <= layout[j].xpos
                       /\ Slice(exifBlob, DirectoryEnd + 4 + layout[j].xpos,
                                Len(tags[j].value)) = tags[j].value

\* the first build routed two tags of equal value
C18_Witness ==
    /\ FirstBuild
    /\ Routed = {1, 2}
    /\ tags[1].value = tags[2].value

(* C20: the APP1 length at blob bytes 2-3 does not depend on the byte      *)
(* order flag: built from the same tags with the flag true and with it     *)
(* false, blobs of equal length carry the same two length bytes, the       *)
(* length high byte first.                                                 *)
C20_LengthIgnoresFlag ==
    \A oob \in OobBytes :
        LET be == buildExifBlob(tags, extraData, TRUE, oob).blob
            le == buildExifBlob(tags, extraData, FALSE, oob).blob
        IN  Len(be) = Len(le) =>
                /\ Slice(be, 2, 2) = Slice(le, 2, 2)
                /\ Slice(le, 2, 2) = <<ByteOf(Len(le) - 2, 1), ByteOf(Len(le) - 2, 0)>>

\* tags whose two builds differ in the TIFF part and whose length bytes differ
C20_Witness ==
    /\ Len(tags) = 2
    /\ LET be == buildExifBlob(tags, extraData, TRUE, 0).blob
           le == buildExifBlob(tags, extraData, FALSE, 0).blob
       IN  /\ Len(be) = Len(le)
           /\ be[11] = 77 /\ le[11] = 73
           /\ le[3] # le[4]

\* the value bytes the builder of MicroExif.h wrote for tag i of the latest blob
WrittenValue(i) ==
    IF layout[i].inline
    THEN Slice(exifBlob, layout[i].start + 8, tags[i].count)
    ELSE Slice(extraData, layout[i].xpos, tags[i].count)

\* the value bytes the variant encoder writes for the string tag vt
VariantWrittenValue(vt) ==
    IF VariantTagFitsInField(vt)
    THEN SubSeq(VariantWriteTagValue(<<>>, vt), 1, IF vt.count <= 4 THEN vt.count ELSE 4)
    ELSE VariantAppendExtraData(<<>>, vt, 0).extraData

(* C19: for an ASCII tag made from a string s the raw bytes are s and one  *)
(* NUL, count = len(s) + 1, the inline/offset decision is taken on that    *)
(* length and that many bytes, terminator included, are written; in the    *)
(* encoder of MicroExif.h and in the variant encoder of ExifBulider.cpp.   *)
C19_AsciiTerminator ==
    (Built /\ buildsSinceAdd >= 1) =>
        \A i \in DOMAIN tags :
            (tags[i].type = ASCII /\ tags[i].ctor = "string") =>
                LET s  == tags[i].arg
                    vt == VariantExifTagString(tags[i].tag, tags[i].type, s)
                IN  /\ tags[i].value = Append(s, 0)
                    /\ tags[i].count = Len(s) + 1
                    /\ tagFitsInField(tags[i]) <=> (Len(s) + 1 <= 4)
                    /\ WrittenValue(i) = Append(s, 0)
                    /\ vt.count = Len(s) + 1
                    /\ VariantTagFitsInField(vt) <=> (Len(s) + 1 <= 4)
                    /\ VariantWrittenValue(vt) = Append(s, 0)

(* C12: every blob begins FF E1, two length bytes, "Exif" NUL NUL, 4D 4D, *)
(* 00 2A, 00 00 00 08, and bytes 18-19 are the number N of tags added,     *)
(* high byte first, for every N, those above 65535 included.               *)
C12_HeaderPrefix ==
    header # <<>> =>
        /\ Len(header) = 20
        /\ Slice(header, 0, 2) = <<255, 225>>
        /\ Slice(header, 4, 14) = <<69, 120, 105, 102, 0, 0, 77, 77, 0, 42, 0, 0, 0, 8>>
        /\ header[19] * 256 + header[20] = tagCount

\* the source is readable and holds at least one FF DB pair
HasMarker(d) == \E i \in 1..(Len(d) - 1) : d[i] = 255 /\ d[i + 1] = 219

\* the smallest 0-based p with d[p] = FF and d[p+1] = DB
MarkerPos(d) == (CHOOSE i \in 1..(Len(d) - 1) :
                    /\ d[i] = 255 /\ d[i + 1] = 219
                    /\ \A j \in 1..(i - 1) : ~(d[j] = 255 /\ d[j + 1] = 219)) - 1

Done == call.state = "done"

(* C15: for a readable source S that holds FF DB, the destination gets     *)
(* S[0..p), the blob, S[p..end), p the index of the first FF DB; for a     *)
(* source without FF DB, or one that cannot be read, the call fails with   *)
(* an error.                                                               *)
C15_InjectorSplice ==
    Done =>
        LET S == originalFile.data
            readable == originalFile.status = "ok"
        IN  /\ (readable /\ HasMarker(S) /\ call.before.creatable) =>
                  /\ call.out.result = "ok"
                  /\ newFile.exists
                  /\ newFile.data = (Slice(S, 0, MarkerPos(S)) \o call.blob)
                                       \o Slice(S, MarkerPos(S), Len(S) - MarkerPos(S))
            /\ (~readable \/ ~HasMarker(S)) => call.out.result = "error"

\* the call ended with one of the three errors of the source
SourceFailure ==
    /\ call.out.result = "error"
    /\ call.out.message \in {"Unable to open file.", "Error reading file.",
                             "FFDB marker not found."}

(* C16: when opening or reading the source fails, or the marker is not     *)
(* found, the destination is neither created nor opened nor written: it   *)
(* is as it was before the call.                                           *)
C16_NoPartialDestination ==
    (Done /\ SourceFailure) =>
        /\ ~call.out.opened
        /\ newFile = call.before

\* a call on a creatable destination ended with "FFDB marker not found."
C16_Witness ==
    /\ Done
    /\ call.out.message = "FFDB marker not found."
    /\ call.before.creatable
    /\ Len(originalFile.data) >= 2

(* C21: on every exit path of writeNewJpegWithExif, the normal return and  *)
(* each exception, the buffer that readJpegFile allocated has been         *)
(* released; none leaves it allocated.                                     *)
C21_BufferReleased ==
    (Done /\ call.out.result \in {"ok", "error"}) =>
        IF call.out.message = "Unable to open file."
        THEN call.out.buffer = "none"
        ELSE call.out.buffer = "freed"

\* dataOffset at the start of the loop iteration of tag i of the latest build
OffsetBefore(i) == IF layout[i].inline THEN layout[i].after ELSE layout[i].offset

(* C23: in every build, at the start of each iteration of the tag loop and *)
(* at its exit, dataOffset = 8 + 2 + 12N + 4 + len(extraData), N the       *)
(* number of tags.                                                         *)
C23_OffsetAccounting ==
    Built =>
        \A i \in DOMAIN layout :
            /\ OffsetBefore(i) = 8 + 2 + 12 * Len(layout) + 4 + layout[i].xpos
            /\ layout[i].after = 8 + 2 + 12 * Len(layout) + 4 + layout[i].xend

(* C24: after any interleaving of addTag and buildExifBlob on one builder, *)
(* build, addTag, build for one, every offset written by the latest build  *)
(* for a tag routed to extra data addresses, from blob index 10, bytes of  *)
(* the blob equal to that tag's raw value.                                 *)
C24_OffsetsAfterRebuild ==
    (nBuilds >= 2 /\ buildsSinceAdd >= 1) =>
        \A i \in Routed :
            /\ 10 + layout[i].offset + Len(tags[i].value) <= Len(exifBlob)
            /\ Slice(exifBlob, 10 + layout[i].offset, Len(tags[i].value)) = tags[i].value


(* C25: buildExifBlob leaves the tag list as it is, its length, order and  *)
(* every tag's id, type, count and raw bytes; addTag appends one element   *)
(* to the tag list and leaves the earlier tags and extraData as they are.  *)
C25_FrameConditions ==
    [][/\ nBuilds' # nBuilds => tags' = tags
       /\ nBuilds' = nBuilds =>
             /\ Len(tags') = Len(tags) + 1
             /\ SubSeq(tags', 1, Len(tags)) = tags
             /\ extraData' = extraData]_builderVars

\* a tag was added to a builder that has built and holds extra data
C25_Witness ==
    /\ Built
    /\ buildsSinceAdd = 0
    /\ Len(tags) = 2
    /\ extraData # <<>>
    /\ Len(layout) = 1

\* the indices of tag.value that writeTagValue reads
ReadIndices(tag) ==
    CASE tag.type = BYTE -> {0}
      [] tag.type = SHORT -> {0, 1}
      [] tag.type \in {LONG, SLONG} -> {0, 1, 2, 3}
      [] tag.type = ASCII -> {k \in 0..(Len(tag.value) - 1) : TRUE}
      [] OTHER -> {}

(* C26: for every tag the public constructors can make, a type code that   *)
(* does not match the constructor included, writeTagValue reads only       *)
(* indices below len(tag.value).                                           *)
C26_InlineReadsInRange ==
    Built =>
        \A i \in DOMAIN layout :
            layout[i].inline => \A k \in ReadIndices(tags[i]) : k < Len(tags[i].value)

(* C27: for every fileSize, 0 and 1 included, findFFDBMarker reads only    *)
(* indices i and i+1 with i+1 < fileSize and either returns the index p of *)
(* the first FF DB pair, p+1 < fileSize, or throws "FFDB marker not        *)
(* found.".                                                                *)
C27_MarkerScanBounds ==
    (Done /\ originalFile.status = "ok") =>
        LET S == originalFile.data
            m == findFFDBMarker(S, Len(S), heap)
        IN  /\ ~m.oob
            /\ ~call.out.oob
            /\ \/ /\ m.kind = "found"
                  /\ m.pos + 1 < Len(S)
                  /\ S[m.pos + 1] = 255 /\ S[m.pos + 2] = 219
                  /\ \A q \in 0..(m.pos - 1) : ~(S[q + 1] = 255 /\ S[q + 2] = 219)
               \/ /\ m.kind = "notfound"
                  /\ ~HasMarker(S)
                  /\ call.out.message = "FFDB marker not found."

---------------------------------------------------------------------------
(* The builder of ExifBuilder.h: no SLONG branch, no byte order parameter  *)
(* in the loop, everything written with the default bigendian = true.      *)

\* writeTagValue(buffer, tag) with the default bigendian = true
writeTagValueH(buffer, tag, oob) ==
    LET v(i) == ValueAt(tag, i, oob)
    IN  CASE tag.type = BYTE  -> buffer \o <<v(0), 0, 0, 0>>
          [] tag.type = SHORT -> buffer \o <<v(1), v(0), 0, 0>>
          [] tag.type = LONG  -> buffer \o <<v(3), v(2), v(1), v(0)>>
          [] tag.type = ASCII -> buffer \o tag.value
          [] OTHER -> buffer

tagFitsInFieldH(tag) ==
    IF tag.type \in {BYTE, SHORT, LONG} THEN TRUE
    ELSE IF tag.type = ASCII THEN Len(tag.value) <= 4
    ELSE FALSE

\* the new extraData and the new dataOffset
appendExtraDataH(extra, tag, dataOffset) ==
    LET data == tag.value
    IN  IF Len(data) % 2 # 0
        THEN [extraData |-> (extra \o data) \o <<0>>, dataOffset |-> dataOffset + Len(data) + 1]
        ELSE [extraData |-> extra \o data, dataOffset |-> dataOffset + Len(data)]

\* the loop of buildExifBlob from tag i on; st is blob, extraData, dataOffset
RECURSIVE TagLoopH(_, _, _, _)
TagLoopH(st, tgs, i, oob) ==
    IF i > Len(tgs) THEN st
    ELSE LET tag == tgs[i]
             hdr == appendUInt32(appendUInt16(appendUInt16(st.blob, tag.tag, TRUE),
                                              tag.type, TRUE), tag.count, TRUE)
             nxt == IF tagFitsInFieldH(tag)
                    THEN [blob |-> writeTagValueH(hdr, tag, oob),
                          extraData |-> st.extraData, dataOffset |-> st.dataOffset]
                    ELSE LET ext == appendExtraDataH(st.extraData, tag, st.dataOffset)
                         IN  [blob |-> appendUInt32(hdr, st.dataOffset, TRUE),
                              extraData |-> ext.extraData, dataOffset |-> ext.dataOffset]
         IN  TagLoopH(nxt, tgs, i + 1, oob)

\* buildExifBlob of ExifBuilder.h: the blob returned and extraData after it
buildExifBlobH(tgs, extra, oob) ==
    LET bigendian == TRUE
        app1 == <<255, 225, 0, 0>> \o <<69, 120, 105, 102, 0, 0>>
        bom  == appendUInt16(app1, IF bigendian THEN 19789 ELSE 18761, TRUE)
        ver  == appendUInt16(bom, IF bigendian THEN 42 ELSE 8192, TRUE)
        ifd  == appendUInt32(ver, IF bigendian THEN 8 ELSE 134217728, TRUE)
        cnt  == appendUInt16(ifd, Len(tgs) % 65536, TRUE)
        st   == TagLoopH([blob |-> cnt, extraData |-> extra,
                          dataOffset |-> 8 + 2 + (Len(tgs) * 12) + 4], tgs, 1, oob)
        all  == appendUInt32(st.blob, 0, TRUE) \o st.extraData
    IN  [blob |-> PatchLength(all), extraData |-> st.extraData]

\* a tag both headers can make: their common constructors and types
SharedTag(t) ==
    /\ t.type \in {BYTE, ASCII, SHORT, LONG, RATIONAL}
    /\ t.ctor \in {"byte", "short", "long", "rational", "string"}

(* C28: for every sequence of tags of types BYTE, ASCII, SHORT, LONG and   *)
(* RATIONAL made with the constructors both headers have, the first        *)
(* buildExifBlob of the builder of ExifBuilder.h and that of the builder   *)
(* of MicroExif.h return the same bytes.                                   *)
C28_BuildersAgree ==
    (FirstBuild /\ buildsSinceAdd >= 1 /\ \A i \in DOMAIN tags : SharedTag(tags[i])) =>
        \A oob \in OobBytes : buildExifBlobH(tags, <<>>, oob).blob = exifBlob

\* the n low bytes of v, low byte first
LEBytes(v, n) == [k \in 1..n |-> S32Byte(v, k - 1)]

\* the blob, extraData and layout of a first build of tgs with bigendian = false
LittleEndianBuild(tgs, oob) == buildExifBlob(tgs, <<>>, FALSE, oob)

(* C29: built with the bigendian flag false, every multi-byte constant and *)
(* field of the blob decodes under little-endian to its value: the byte    *)
(* order indicator 49 49, the TIFF version, the first-IFD offset, the      *)
(* entry count, each entry's id, type and count, the inline SHORT, LONG    *)
(* and SLONG values, the offsets, and numerator then denominator of each   *)
(* RATIONAL and SRATIONAL in the extra data.                               *)
C29_LittleEndianPath ==
    (FirstBuild /\ buildsSinceAdd >= 1) =>
        \A oob \in OobBytes :
            LET r == LittleEndianBuild(tags, oob)
                b == r.blob
                xstart == Len(b) - Len(r.extraData)
            IN  /\ Slice(b, 10, 2) = <<73, 73>>
                /\ Slice(b, 12, 2) = LEBytes(42, 2)
                /\ Slice(b, 14, 4) = LEBytes(8, 4)
                /\ Slice(b, 18, 2) = LEBytes(Len(tags), 2)
                /\ \A i \in DOMAIN tags :
                      LET t == tags[i]
                          e == r.layout[i].start
                      IN  /\ Slice(b, e, 2) = LEBytes(t.tag, 2)
                          /\ Slice(b, e + 2, 2) = LEBytes(t.type, 2)
                          /\ Slice(b, e + 4, 4) = LEBytes(t.count, 4)
                          /\ (t.type = SHORT /\ t.ctor = "short") =>
                                Slice(b, e + 8, 2) = LEBytes(t.arg[1], 2)
                          /\ (t.type = LONG /\ t.ctor = "long") \/ (t.type = SLONG /\ t.ctor = "slong") =>
                                Slice(b, e + 8, 4) = LEBytes(t.arg[1], 4)
                          /\ ~r.layout[i].inline =>
                                Slice(b, e + 8, 4) = LEBytes(r.layout[i].offset, 4)
                          /\ (t.type = RATIONAL /\ t.ctor = "rational")
                                \/ (t.type = SRATIONAL /\ t.ctor = "srational") =>
                                Slice(b, xstart + r.layout[i].xpos, 8)
                                    = LEBytes(t.arg[1], 4) \o LEBytes(t.arg[2], 4)

\* the members and latest blob of a builder that received the calls cs[1..n]
\* and no others
RECURSIVE Alone(_, _)
Alone(cs, n) ==
    IF n = 0 THEN [tags |-> <<>>, extraData |-> <<>>, exifBlob |-> <<>>]
    ELSE LET before == Alone(cs, n - 1)
         IN  IF cs[n].op = "addTag"
             THEN [before EXCEPT !.tags = Append(@, cs[n].tag[1])]
             ELSE LET r == buildExifBlob(before.tags, before.extraData, TRUE, 0)
                  IN  [before EXCEPT !.exifBlob = r.blob, !.extraData = r.extraData]

(* C22: of two ExifBuilder objects A and B, the calls of addTag and        *)
(* buildExifBlob made on A leave B's tag list and extra data as they are:  *)
(* the members of B and the blob B returns are those of a builder that     *)
(* received B's calls alone.                                               *)
C22_InstanceOwned ==
    \A b \in Instances :
        LET own == Alone(builders[b].calls, Len(builders[b].calls))
        IN  /\ builders[b].tags = own.tags
            /\ builders[b].extraData = own.extraData
            /\ builders[b].exifBlob = own.exifBlob

\* both builders have built a routed tag, from different tag lists, and A
\* has received all its calls
C22_Witness ==
    /\ builders["A"].extraData # <<>>
    /\ builders["B"].extraData # <<>>
    /\ builders["A"].tags # builders["B"].tags
    /\ builders["B"].exifBlob # <<>>
    /\ Len(builders["A"].calls) = MaxCalls

====
